---------------------------- MODULE Spec2Model ----------------------------
(***************************************************************************)
(* Model of src/main.py, the "pengelola uang" command line ledger.         *)
(*                                                                         *)
(* The program keeps one dictionary `data` = {"saldo", "riwayat"} in the   *)
(* local scope of main(), reads it from data.json with load_data() and     *)
(* writes it back with save_data() after every recorded transaction.       *)
(*                                                                         *)
(* Text is a sequence of pieces, so that str.strip, str.replace, float()   *)
(* and the JSON encoding are computed, not assumed.  What the user types   *)
(* and every number literal is kept character by character; a literal of   *)
(* the program (a key, "Pemasukan", a timestamp) is one piece, as none of  *)
(* the operations looks inside it.                                         *)
(* A float is [t |-> "float", k, v]: k is "fin", "inf", "ninf" or "nan"    *)
(* and v counts tenths (v = 15 is 1.5).  The amounts the model enters are  *)
(* multiples of 0.5, which IEEE doubles add and subtract exactly, so the   *)
(* integer arithmetic on v is the arithmetic the program performs.         *)
(***************************************************************************)
EXTENDS Integers, Sequences, FiniteSets, TLC

VARIABLES
    pc,      \* "start" | "menu" | "exited" | "crashed": where the process is
    data,    \* the value bound to `data` in main()
    disk,    \* data.json: [exists, toks]
    bak,     \* data.json.bak: [exists, toks]
    last     \* the operation just performed, its inputs and what it printed

vars == <<pc, data, disk, bak, last>>

---------------------------------------------------------------------------
(* Bounds of the model.                                                    *)

MaxHist == 2          \* tambah_* is offered while fewer entries than this are recorded

---------------------------------------------------------------------------
(* str methods used by the program.                                        *)

IsSpace(c) == c = " "

IsDigit(c) == c \in {"0", "1", "2", "3", "4", "5", "6", "7", "8", "9"}

DigitChars == <<"0", "1", "2", "3", "4", "5", "6", "7", "8", "9">>

DigitVal(c) == (CHOOSE i \in 1..10 : DigitChars[i] = c) - 1

RECURSIVE lstrip(_)
lstrip(s) == IF s # <<>> /\ IsSpace(Head(s)) THEN lstrip(Tail(s)) ELSE s

RECURSIVE rstrip(_)
rstrip(s) ==
    IF s # <<>> /\ IsSpace(s[Len(s)]) THEN rstrip(SubSeq(s, 1, Len(s) - 1)) ELSE s

strip(s) == rstrip(lstrip(s))

\* s.replace(old, new) for a one-character `old`; `new` is a text.
RECURSIVE replace(_, _, _)
replace(s, old, new) ==
    IF s = <<>> THEN <<>>
    ELSE (IF Head(s) = old THEN new ELSE <<Head(s)>>) \o replace(Tail(s), old, new)

---------------------------------------------------------------------------
(* Python numbers.                                                         *)

PyInt(n) == [t |-> "int", i |-> n]

Fin(v) == [t |-> "float", k |-> "fin", v |-> v]
Inf == [t |-> "float", k |-> "inf", v |-> 0]
NInf == [t |-> "float", k |-> "ninf", v |-> 0]
NaN == [t |-> "float", k |-> "nan", v |-> 0]

FNeg(a) ==
    CASE a.k = "fin" -> Fin(0 - a.v)
      [] a.k = "inf" -> NInf
      [] a.k = "ninf" -> Inf
      [] OTHER -> NaN

\* a + b on doubles
FAdd(a, b) ==
    CASE a.k = "nan" \/ b.k = "nan" -> NaN
      [] a.k = "fin" /\ b.k = "fin" -> Fin(a.v + b.v)
      [] a.k = "fin" -> b
      [] b.k = "fin" -> a
      [] a.k = b.k -> a
      [] OTHER -> NaN

\* a - b on doubles
FSub(a, b) == FAdd(a, FNeg(b))

\* a < b on doubles: every comparison with nan is False
FLt(a, b) ==
    CASE a.k = "nan" \/ b.k = "nan" -> FALSE
      [] a.k = "fin" /\ b.k = "fin" -> a.v < b.v
      [] a.k = "ninf" -> b.k # "ninf"
      [] b.k = "inf" -> a.k # "inf"
      [] OTHER -> FALSE

\* a == b on doubles
FEq(a, b) ==
    CASE a.k = "nan" \/ b.k = "nan" -> FALSE
      [] a.k = "fin" /\ b.k = "fin" -> a.v = b.v
      [] OTHER -> a.k = b.k

FLe(a, b) == FLt(a, b) \/ FEq(a, b)

FGt(a, b) == FLt(b, a)

FZero == Fin(0)

---------------------------------------------------------------------------
(* float(str): optional sign, then inf / infinity / nan, or decimal digits *)
(* with an optional point.  Anything else raises ValueError.  The model    *)
(* keeps one fractional digit; texts with more are outside its inputs.     *)

AllDigits(s) == \A i \in 1..Len(s) : IsDigit(s[i])

RECURSIVE DigitsValue(_)
DigitsValue(s) ==
    IF s = <<>> THEN 0
    ELSE 10 * DigitsValue(SubSeq(s, 1, Len(s) - 1)) + DigitVal(s[Len(s)])

PointAt(s) == IF \E i \in 1..Len(s) : s[i] = "."
              THEN CHOOSE i \in 1..Len(s) : s[i] = "." /\ \A j \in 1..(i - 1) : s[j] # "."
              ELSE 0

ValueError == [ok |-> FALSE, exc |-> "ValueError"]
TypeError == [ok |-> FALSE, exc |-> "TypeError"]
Returned(v) == [ok |-> TRUE, val |-> v]

\* the digits before and after the point at position p (0: no point)
Decimal(body, p) ==
    [ip |-> IF p = 0 THEN body ELSE SubSeq(body, 1, p - 1),
     fp |-> IF p = 0 THEN <<>> ELSE SubSeq(body, p + 1, Len(body))]

DecimalOk(d) == AllDigits(d.ip) /\ AllDigits(d.fp) /\ Len(d.ip) + Len(d.fp) > 0 /\ Len(d.fp) <= 1

DecimalTenths(d) == 10 * DigitsValue(d.ip) + (IF d.fp = <<>> THEN 0 ELSE DigitVal(d.fp[1]))

float_unsigned(body, d, neg) ==
    CASE body \in {<<"i", "n", "f">>, <<"i", "n", "f", "i", "n", "i", "t", "y">>}
            -> Returned(IF neg THEN NInf ELSE Inf)
      [] body = <<"n", "a", "n">> -> Returned(NaN)
      [] DecimalOk(d) -> Returned(Fin(IF neg THEN 0 - DecimalTenths(d) ELSE DecimalTenths(d)))
      [] OTHER -> ValueError

float_signed(body, neg) == float_unsigned(body, Decimal(body, PointAt(body)), neg)

float_stripped(s) ==
    IF s # <<>> /\ Head(s) \in {"-", "+"} THEN float_signed(Tail(s), Head(s) = "-")
    ELSE float_signed(s, FALSE)

float_of_str(s) == float_stripped(strip(s))

---------------------------------------------------------------------------
(* Python values: int, float, str, list, dict (keys in insertion order).   *)

PyStr(c) == [t |-> "str", c |-> c]
PyList(e) == [t |-> "list", e |-> e]
PyDict(ks, vs) == [t |-> "dict", ks |-> ks, vs |-> vs]
Unbound == [t |-> "unbound"]

KeyIndex(d, key) ==
    IF \E i \in 1..Len(d.ks) : d.ks[i] = key
    THEN CHOOSE i \in 1..Len(d.ks) : d.ks[i] = key
    ELSE 0

\* key in d
HasKey(d, key) == KeyIndex(d, key) # 0

\* d[key], for a key that is present
DictItem(d, key) == d.vs[KeyIndex(d, key)]

\* d[key] = v
DictSet(d, key, v) ==
    IF HasKey(d, key)
    THEN PyDict(d.ks, [d.vs EXCEPT ![KeyIndex(d, key)] = v])
    ELSE PyDict(Append(d.ks, key), Append(d.vs, v))

\* d.get(key, default)
DictGet(d, key, default) == IF HasKey(d, key) THEN DictItem(d, key) ELSE default

\* float(x) for a Python value x
float(x) ==
    CASE x.t = "float" -> Returned(x)
      [] x.t = "int" -> Returned(Fin(10 * x.i))
      [] x.t = "str" -> float_of_str(x.c)
      [] OTHER -> TypeError

---------------------------------------------------------------------------
(* Literals of the program.                                                *)

K_saldo == <<"saldo">>
K_riwayat == <<"riwayat">>
K_tanggal == <<"tanggal">>
K_jenis == <<"jenis">>
K_jumlah == <<"jumlah">>
K_keterangan == <<"keterangan">>

Pemasukan == <<"Pemasukan">>
Pengeluaran == <<"Pengeluaran">>
TanpaKeterangan == <<"(Tanpa keterangan)">>

\* {"saldo": 0, "riwayat": []}
data_awal == PyDict(<<K_saldo, K_riwayat>>, <<PyInt(0), PyList(<<>>)>>)

---------------------------------------------------------------------------
(* json.dump / json.load.  The file is kept as the sequence of JSON tokens *)
(* (punctuation, string literals with their escapes, number literals); the *)
(* indentation json.dump(indent=2) puts between tokens is not kept.        *)

Punct(c) == [k |-> "punct", c |-> <<c>>]
StrTok(c) == [k |-> "str", c |-> c]
NumTok(c) == [k |-> "num", c |-> c]

\* the escapes of a JSON string literal (ensure_ascii=False): \" and \\
RECURSIVE Escape(_)
Escape(s) ==
    IF s = <<>> THEN <<>>
    ELSE (IF Head(s) \in {"\"", "\\"} THEN <<"\\", Head(s)>> ELSE <<Head(s)>>)
         \o Escape(Tail(s))

\* a reader that keeps the escapes as written
Unescape_raw(s) == s

RECURSIVE Unescape(_)
Unescape(s) ==
    IF s = <<>> THEN <<>>
    ELSE IF Head(s) = "\\" /\ Len(s) >= 2
         THEN <<s[2]>> \o Unescape(Tail(Tail(s)))
         ELSE <<Head(s)>> \o Unescape(Tail(s))

RECURSIVE NatText(_)
NatText(n) ==
    IF n < 10 THEN <<DigitChars[n + 1]>>
    ELSE NatText(n \div 10) \o <<DigitChars[(n % 10) + 1]>>

\* int.__repr__
IntText(n) == IF n < 0 THEN <<"-">> \o NatText(0 - n) ELSE NatText(n)

\* float.__repr__ as json writes it (allow_nan=True)
FloatText(f) ==
    CASE f.k = "nan" -> <<"N", "a", "N">>
      [] f.k = "inf" -> <<"I", "n", "f", "i", "n", "i", "t", "y">>
      [] f.k = "ninf" -> <<"-", "I", "n", "f", "i", "n", "i", "t", "y">>
      [] OTHER ->
            LET m == IF f.v < 0 THEN 0 - f.v ELSE f.v
            IN  (IF f.v < 0 THEN <<"-">> ELSE <<>>)
                \o NatText(m \div 10) \o <<".">> \o NatText(m % 10)

RECURSIVE json_dump(_)
RECURSIVE DumpItems(_, _)
RECURSIVE DumpMembers(_, _)
json_dump(x) ==
    CASE x.t = "int" -> <<NumTok(IntText(x.i))>>
      [] x.t = "float" -> <<NumTok(FloatText(x))>>
      [] x.t = "str" -> <<StrTok(Escape(x.c))>>
      [] x.t = "list" -> <<Punct("[")>> \o DumpItems(x.e, 1) \o <<Punct("]")>>
      [] x.t = "dict" -> <<Punct("{")>> \o DumpMembers(x, 1) \o <<Punct("}")>>

DumpItems(e, i) ==
    IF i > Len(e) THEN <<>>
    ELSE (IF i > 1 THEN <<Punct(",")>> ELSE <<>>) \o json_dump(e[i]) \o DumpItems(e, i + 1)

DumpMembers(d, i) ==
    IF i > Len(d.ks) THEN <<>>
    ELSE (IF i > 1 THEN <<Punct(",")>> ELSE <<>>)
         \o <<StrTok(Escape(d.ks[i])), Punct(":")>> \o json_dump(d.vs[i])
         \o DumpMembers(d, i + 1)

JSONDecodeError == [ok |-> FALSE, exc |-> "JSONDecodeError"]
Parsed(v, n) == [ok |-> TRUE, val |-> v, nxt |-> n]

IsPunct(toks, i, c) == i <= Len(toks) /\ toks[i] = Punct(c)

\* a JSON number literal: -? digits (. digits)?  or NaN, Infinity, -Infinity
NumShape(c, body, d, p) ==
    CASE c = <<"N", "a", "N">> -> Returned(NaN)
      [] body = <<"I", "n", "f", "i", "n", "i", "t", "y">>
            -> Returned(IF body = c THEN Inf ELSE NInf)
      [] p = 0 /\ d.ip # <<>> /\ AllDigits(d.ip)
            -> Returned(PyInt(IF body = c THEN DigitsValue(d.ip) ELSE 0 - DigitsValue(d.ip)))
      [] p # 0 /\ d.ip # <<>> /\ d.fp # <<>> /\ AllDigits(d.ip) /\ AllDigits(d.fp)
            -> float_of_str(c)
      [] OTHER -> JSONDecodeError

NumBody(c, body) == NumShape(c, body, Decimal(body, PointAt(body)), PointAt(body))

NumValue(c) == NumBody(c, IF c # <<>> /\ Head(c) = "-" THEN Tail(c) ELSE c)

NumParsed(r, i) == IF r.ok THEN Parsed(r.val, i + 1) ELSE JSONDecodeError

RECURSIVE ParseValue(_, _)
RECURSIVE ParseItems(_, _, _)
RECURSIVE ParseMembers(_, _, _)
RECURSIVE AfterItem(_, _, _)
RECURSIVE AfterMember(_, _, _)
ParseValue(toks, i) ==
    IF i > Len(toks) THEN JSONDecodeError
    ELSE CASE toks[i].k = "num" -> NumParsed(NumValue(toks[i].c), i)
           [] toks[i].k = "str" -> Parsed(PyStr(Unescape(toks[i].c)), i + 1)
           [] toks[i] = Punct("[") ->
                IF IsPunct(toks, i + 1, "]") THEN Parsed(PyList(<<>>), i + 2)
                ELSE ParseItems(toks, i + 1, <<>>)
           [] toks[i] = Punct("{") ->
                IF IsPunct(toks, i + 1, "}") THEN Parsed(PyDict(<<>>, <<>>), i + 2)
                ELSE ParseMembers(toks, i + 1, PyDict(<<>>, <<>>))
           [] OTHER -> JSONDecodeError

ParseItems(toks, i, acc) == AfterItem(toks, ParseValue(toks, i), acc)

AfterItem(toks, r, acc) ==
    IF ~r.ok THEN JSONDecodeError
    ELSE IF IsPunct(toks, r.nxt, ",") THEN ParseItems(toks, r.nxt + 1, Append(acc, r.val))
    ELSE IF IsPunct(toks, r.nxt, "]") THEN Parsed(PyList(Append(acc, r.val)), r.nxt + 1)
    ELSE JSONDecodeError

ParseMembers(toks, i, d) ==
    IF ~(i + 1 <= Len(toks) /\ toks[i].k = "str" /\ IsPunct(toks, i + 1, ":"))
    THEN JSONDecodeError
    ELSE AfterMember(toks, ParseValue(toks, i + 2), [d |-> d, key |-> Unescape(toks[i].c)])

AfterMember(toks, r, m) ==
    IF ~r.ok THEN JSONDecodeError
    ELSE IF IsPunct(toks, r.nxt, ",") THEN ParseMembers(toks, r.nxt + 1, DictSet(m.d, m.key, r.val))
    ELSE IF IsPunct(toks, r.nxt, "}") THEN Parsed(DictSet(m.d, m.key, r.val), r.nxt + 1)
    ELSE JSONDecodeError

\* json.load: one value, and nothing after it
WholeText(toks, r) == IF r.ok /\ r.nxt = Len(toks) + 1 THEN Returned(r.val) ELSE JSONDecodeError

json_load(toks) == WholeText(toks, ParseValue(toks, 1))

---------------------------------------------------------------------------
(* The two files the program touches, and what the file system may do to a *)
(* write: complete it ("ok"), refuse to open the file ("denied"), or fail  *)
(* after open(..., "w") truncated it, leaving a proper prefix ("torn").    *)

File(toks) == [exists |-> TRUE, toks |-> toks]
Absent == [exists |-> FALSE, toks |-> <<>>]

WriteOutcomes == {"ok", "denied", "torn"}

OSError == [ok |-> FALSE, exc |-> "OSError"]

\* open(DATA_FILE, "w") and the write of the text toks, on the file x
write_file(toks, x, w) ==
    CASE w = "ok" -> [raised |-> FALSE, disk |-> File(toks)]
      [] w = "denied" -> [raised |-> TRUE, disk |-> x]
      [] OTHER -> [raised |-> TRUE, disk |-> File(SubSeq(toks, 1, Len(toks) \div 2))]

\* save_data(d) on the file x: whether it raised, and the file it leaves
save_data(d, x, w) == write_file(json_dump(d), x, w)

\* lines 59-61 and 71-73: save_data(data_awal); return data_awal
create_awal(s, b) ==
    [ret |-> IF s.raised THEN OSError ELSE Returned(data_awal), disk |-> s.disk, bak |-> b]

\* lines 62-73: r is what json.load did with the file x
load_existing(r, x, b, w, rn) ==
    IF r.ok THEN [ret |-> r, disk |-> x, bak |-> b]
    ELSE create_awal(save_data(data_awal, IF rn THEN Absent ELSE x, w), IF rn THEN x ELSE b)

\* load_data() with data.json = x and data.json.bak = b: what it returns or
\* raises, and the two files afterwards.  rn: os.rename is permitted.
load_data(x, b, w, rn) ==
    IF ~x.exists THEN create_awal(save_data(data_awal, x, w), b)
    ELSE load_existing(json_load(x.toks), x, b, w, rn)

\* the end of the handler: fin tells what became of its save_data
handler_end(s, b) == [disk |-> s.disk, bak |-> b, fin |-> IF s.raised THEN "swallowed" ELSE "saved"]

handler_save(l, w) ==
    IF ~l.ret.ok THEN [disk |-> l.disk, bak |-> l.bak, fin |-> "swallowed"]
    ELSE handler_end(save_data(l.ret.val, l.disk, w), l.bak)

\* The KeyboardInterrupt handler of __main__, lines 285-293:
\* save_data(load_data()) with every Exception swallowed.
interrupt_handler(x, b, w, rn) == handler_save(load_data(x, b, w, rn), w)

---------------------------------------------------------------------------
(* tambah_pemasukan / tambah_pengeluaran, up to the call of save_data.     *)

\* float(input(...).strip().replace('.', '').replace(',', '.'))
parse_jumlah(txt) == float_of_str(replace(replace(strip(txt), ".", <<>>), ",", <<".">>))

\* input(...).strip() or "(Tanpa keterangan)"
keterangan_or_default(s) == IF s # <<>> THEN s ELSE TanpaKeterangan

parse_keterangan(txt) == keterangan_or_default(strip(txt))

transaksi(now, jenis, jumlah, keterangan) ==
    PyDict(<<K_tanggal, K_jenis, K_jumlah, K_keterangan>>,
           <<PyStr(now), PyStr(jenis), jumlah, PyStr(keterangan)>>)

\* float(data.get("saldo", 0)): AttributeError when data has no .get
saldo_sekarang(d) ==
    IF d.t # "dict" THEN [ok |-> FALSE, exc |-> "AttributeError"]
    ELSE float(DictGet(d, K_saldo, PyInt(0)))

\* data["riwayat"].insert(0, t) in place of the append
append_riwayat_front(d, t) ==
    IF ~HasKey(d, K_riwayat) THEN [ok |-> FALSE, exc |-> "KeyError"]
    ELSE IF DictItem(d, K_riwayat).t # "list" THEN [ok |-> FALSE, exc |-> "AttributeError"]
    ELSE Returned(DictSet(d, K_riwayat, PyList(<<t>> \o DictItem(d, K_riwayat).e)))

\* data["riwayat"].append(t): the dictionary afterwards, or the exception
append_riwayat(d, t) ==
    IF ~HasKey(d, K_riwayat) THEN [ok |-> FALSE, exc |-> "KeyError"]
    ELSE IF DictItem(d, K_riwayat).t # "list" THEN [ok |-> FALSE, exc |-> "AttributeError"]
    ELSE Returned(DictSet(d, K_riwayat, PyList(Append(DictItem(d, K_riwayat).e, t))))

\* The in-memory part of an operation: out is what it printed ("invalid",
\* "nonpositive", "insufficient"), "ok" when it reached save_data, or the
\* exception that left it; data is `data` at that point.
Step(out, d) == [out |-> out, data |-> d]

\* d1 is data with the new saldo; a is what the append did
after_append(d1, a) == IF a.ok THEN Step("ok", a.val) ELSE Step(a.exc, d1)

\* lines 99-106
pemasukan_apply(d, s, jumlah, t) ==
    IF ~s.ok THEN Step(s.exc, d)
    ELSE after_append(DictSet(d, K_saldo, FAdd(s.val, jumlah)),
                      append_riwayat(DictSet(d, K_saldo, FAdd(s.val, jumlah)), t))

\* lines 127-141
pengeluaran_apply(d, s, jumlah, t) ==
    IF ~s.ok THEN Step(s.exc, d)
    ELSE IF FGt(jumlah, s.val) THEN Step("insufficient", d)
    ELSE after_append(DictSet(d, K_saldo, FSub(s.val, jumlah)),
                      append_riwayat(DictSet(d, K_saldo, FSub(s.val, jumlah)), t))

\* lines 87-96 / 116-125: j is what float(jumlah_str) did
pemasukan_checked(d, j, ket, now) ==
    IF ~j.ok THEN Step("invalid", d)
    ELSE IF FLe(j.val, FZero) THEN Step("nonpositive", d)
    ELSE pemasukan_apply(d, saldo_sekarang(d), j.val,
                         transaksi(now, Pemasukan, j.val, parse_keterangan(ket)))

pengeluaran_checked(d, j, ket, now) ==
    IF ~j.ok THEN Step("invalid", d)
    ELSE IF FLe(j.val, FZero) THEN Step("nonpositive", d)
    ELSE pengeluaran_apply(d, saldo_sekarang(d), j.val,
                           transaksi(now, Pengeluaran, j.val, parse_keterangan(ket)))

---------------------------------------------------------------------------
(* What the user types, what the clock shows, what the file system does.   *)

\* typed at "Masukkan jumlah ...": nothing, "0.0", "-0,5", " 0,5", "2", "inf", "nan"
AmountTexts ==
    { <<>>, <<"0", ".", "0">>, <<"-", "0", ",", "5">>, <<" ", "0", ",", "5">>,
      <<"2">>, <<"i", "n", "f">>, <<"n", "a", "n">> }

\* typed at "Keterangan ...": a blank, and a word with a quote in it between blanks
MemoTexts == { <<" ">>, <<" ", "a", "\"", " ">> }

\* datetime.now().strftime("%Y-%m-%d %H:%M:%S")
Clock == { <<"2024-01-01 00:00:01">> }

\* w: outcome of the operation's own save_data; rn: os.rename permitted;
\* sig: where Ctrl-C arrives ("none", at a "prompt", after the append and
\* "before_save", or "in_save" once the file is truncated);
\* hw, hrn: outcome of the writes and of the rename in the interrupt handler.
Env(w, rn, sig, hw, hrn) == [w |-> w, rn |-> rn, sig |-> sig, hw |-> hw, hrn |-> hrn]

NoEnv == Env("ok", TRUE, "none", "ok", TRUE)

RecordEnvs ==
    { Env(w, TRUE, "none", "ok", TRUE) : w \in WriteOutcomes }
    \cup { Env("ok", TRUE, sig, "ok", TRUE) : sig \in {"before_save", "in_save"} }

\* a ledger the program wrote in an earlier run: one income of 2.0, memo a"
ledger_lama ==
    PyDict(<<K_saldo, K_riwayat>>,
           <<Fin(20), PyList(<<transaksi(CHOOSE c \in Clock : TRUE, Pemasukan, Fin(20),
                                         <<"a", "\"">>)>>)>>)

\* data.json at launch: absent, an empty file, [], {}, an object whose
\* saldo is the string "x", and the ledger of an earlier run
InitialFiles ==
    { Absent, File(<<>>), File(json_dump(PyList(<<>>))), File(json_dump(PyDict(<<>>, <<>>))),
      File(json_dump(PyDict(<<K_saldo, K_riwayat>>, <<PyStr(<<"x">>), PyList(<<>>)>>))),
      File(json_dump(ledger_lama)) }

---------------------------------------------------------------------------
(* The state machine: one run of the program.                              *)

Last(op, amt, ket, env, out, fin) ==
    [op |-> op, amt |-> amt, ket |-> ket, env |-> env, out |-> out, fin |-> fin,
     pre |-> data, preDisk |-> disk, preBak |-> bak]

Init ==
    /\ pc = "start"
    /\ data = Unbound
    /\ disk \in InitialFiles
    /\ bak = Absent
    /\ last = [op |-> "none", amt |-> <<>>, ket |-> <<>>, env |-> NoEnv, out |-> "none",
               fin |-> "none", pre |-> Unbound, preDisk |-> Absent, preBak |-> Absent]

\* len(data["riwayat"]) when data is a dictionary holding that list, else 0
HistLen(d) ==
    IF d.t = "dict" /\ HasKey(d, K_riwayat) /\ DictItem(d, K_riwayat).t = "list"
    THEN Len(DictItem(d, K_riwayat).e) ELSE 0

\* main(), line 256: data = load_data()
main_load ==
    /\ pc = "start"
    /\ \E w \in WriteOutcomes, rn \in BOOLEAN :
          \E l \in {load_data(disk, bak, w, rn)} :
              /\ pc' = IF l.ret.ok THEN "menu" ELSE "crashed"
              /\ data' = IF l.ret.ok THEN l.ret.val ELSE Unbound
              /\ disk' = l.disk
              /\ bak' = l.bak
              /\ last' = Last("load_data", <<>>, <<>>, Env(w, rn, "none", "ok", TRUE),
                              IF l.ret.ok THEN "ok" ELSE l.ret.exc, "none")

\* An operation that ends before save_data: a rejection returns to the
\* menu, an exception leaves main() and ends the process.
record_stop(op, txt, ket, m) ==
    /\ pc' = IF m.out \in {"invalid", "nonpositive", "insufficient"} THEN "menu" ELSE "crashed"
    /\ data' = m.data
    /\ disk' = disk
    /\ bak' = bak
    /\ last' = Last(op, txt, ket, NoEnv, m.out, "none")

\* the operation ends with save_data(data), line 107 / 142
saved_end(s, b) ==
    [pc |-> IF s.raised THEN "crashed" ELSE "menu", disk |-> s.disk, bak |-> b,
     out |-> IF s.raised THEN "OSError" ELSE "ok", fin |-> "none"]

\* the operation ends in the handler of __main__
interrupted_end(h) ==
    [pc |-> "exited", disk |-> h.disk, bak |-> h.bak, out |-> "KeyboardInterrupt", fin |-> h.fin]

\* save_data(data), toks being json.dump's text of data, and what follows;
\* when Ctrl-C arrives first (env.sig), the handler of __main__ on the file
\* as it is at that moment.
record_io(toks, x, b, env) ==
    CASE env.sig = "none" -> saved_end(write_file(toks, x, env.w), b)
      [] env.sig = "in_save" ->
            interrupted_end(interrupt_handler(write_file(toks, x, "torn").disk, b,
                                              env.hw, env.hrn))
      [] OTHER -> interrupted_end(interrupt_handler(x, b, env.hw, env.hrn))

\* An operation whose amount was accepted and whose entry is appended.
record_save(op, txt, ket, m) ==
    \E toks \in {json_dump(m.data)} :
        \E env \in RecordEnvs :
            \E r \in {record_io(toks, disk, bak, env)} :
                /\ pc' = r.pc
                /\ data' = m.data
                /\ disk' = r.disk
                /\ bak' = r.bak
                /\ last' = Last(op, txt, ket, env, r.out, r.fin)

\* the operation chosen at the menu, from the parsed amount on
checked(op, d, j, ket, now) ==
    IF op = "tambah_pemasukan" THEN pemasukan_checked(d, j, ket, now)
    ELSE pengeluaran_checked(d, j, ket, now)

\* The amount is read first (lines 87-95 / 116-124); the memo is asked for
\* only once the amount passed.
record(op) ==
    \E txt \in AmountTexts :
        \E j \in {parse_jumlah(txt)} :
            IF checked(op, data, j, <<>>, <<>>).out \in {"invalid", "nonpositive"}
            THEN record_stop(op, txt, <<>>, checked(op, data, j, <<>>, <<>>))
            ELSE \E ket \in MemoTexts, now \in Clock :
                    \E m \in {checked(op, data, j, ket, now)} :
                        IF m.out # "ok"
                        THEN record_stop(op, txt, ket, m)
                        ELSE record_save(op, txt, ket, m)

\* pilihan == "1"
tambah_pemasukan ==
    /\ pc = "menu"
    /\ HistLen(data) < MaxHist
    /\ record("tambah_pemasukan")

\* pilihan == "2"
tambah_pengeluaran ==
    /\ pc = "menu"
    /\ HistLen(data) < MaxHist
    /\ record("tambah_pengeluaran")

\* the loop `for it in riwayat: it.get(...)` of both views: "ok", or the exception
loop_riwayat(r) ==
    CASE r.t = "list" -> IF \A i \in 1..Len(r.e) : r.e[i].t = "dict" THEN "ok" ELSE "AttributeError"
      [] r.t = "str" -> IF r.c = <<>> THEN "ok" ELSE "AttributeError"
      [] r.t = "dict" -> IF r.ks = <<>> THEN "ok" ELSE "AttributeError"
      [] OTHER -> IF r = PyInt(0) \/ r = FZero THEN "ok" ELSE "TypeError"

\* data.get("riwayat", []) and the loop over it
lihat_result(d) ==
    IF d.t # "dict" THEN "AttributeError" ELSE loop_riwayat(DictGet(d, K_riwayat, PyList(<<>>)))

lihat(op) ==
    /\ pc' = IF lihat_result(data) = "ok" THEN "menu" ELSE "crashed"
    /\ last' = Last(op, <<>>, <<>>, NoEnv, lihat_result(data), "none")
    /\ UNCHANGED <<data, disk, bak>>

\* pilihan == "3"
lihat_saldo ==
    /\ pc = "menu"
    /\ lihat("lihat_saldo")

\* pilihan == "4"
lihat_riwayat ==
    /\ pc = "menu"
    /\ lihat("lihat_riwayat")

\* pilihan == "5": save_data(data); sys.exit(0)
keluar ==
    /\ pc = "menu"
    /\ \E w \in WriteOutcomes :
          \E s \in {save_data(data, disk, w)} :
              /\ pc' = IF s.raised THEN "crashed" ELSE "exited"
              /\ disk' = s.disk
              /\ last' = Last("keluar", <<>>, <<>>, Env(w, TRUE, "none", "ok", TRUE),
                              IF s.raised THEN "OSError" ELSE "ok", "none")
    /\ UNCHANGED <<data, bak>>

\* any other choice: a message, and back to the menu
pilihan_tidak_dikenali ==
    /\ pc = "menu"
    /\ last' = Last("pilihan_tidak_dikenali", <<>>, <<>>, NoEnv, "unknown", "none")
    /\ UNCHANGED <<pc, data, disk, bak>>

\* Ctrl-C while the program waits at one of its prompts
keyboard_interrupt ==
    /\ pc = "menu"
    /\ \E hw \in WriteOutcomes, hrn \in {TRUE} :
          \E h \in {interrupt_handler(disk, bak, hw, hrn)} :
              /\ pc' = "exited"
              /\ disk' = h.disk
              /\ bak' = h.bak
              /\ last' = Last("keyboard_interrupt", <<>>, <<>>,
                              Env("ok", TRUE, "prompt", hw, hrn), "KeyboardInterrupt", h.fin)
    /\ UNCHANGED data

Next ==
    \/ main_load
    \/ tambah_pemasukan
    \/ tambah_pengeluaran
    \/ lihat_saldo
    \/ lihat_riwayat
    \/ keluar
    \/ pilihan_tidak_dikenali
    \/ keyboard_interrupt

Spec == Init /\ [][Next]_vars

---------------------------------------------------------------------------
(* Vocabulary of the properties.                                           *)

RecordOps == {"tambah_pemasukan", "tambah_pengeluaran"}

Rejections == {"invalid", "nonpositive", "insufficient"}

\* the shape the program expects of `data`: a dictionary with a numeric
\* "saldo" and a list "riwayat" of dictionaries
IsLedger(d) ==
    /\ d.t = "dict"
    /\ HasKey(d, K_saldo)
    /\ DictItem(d, K_saldo).t \in {"int", "float"}
    /\ HasKey(d, K_riwayat)
    /\ DictItem(d, K_riwayat).t = "list"
    /\ \A i \in 1..Len(DictItem(d, K_riwayat).e) : DictItem(d, K_riwayat).e[i].t = "dict"

\* data["saldo"] as a double
Saldo(d) == float(DictItem(d, K_saldo)).val

\* data["riwayat"] as a sequence; empty when there is no such list
Riwayat(d) == IF HistLen(d) > 0 THEN DictItem(d, K_riwayat).e ELSE <<>>

\* sum(t["jumlah"] for t in e if t["jenis"] == jenis), added left to right
RECURSIVE Total(_, _)
Total(e, jenis) ==
    IF e = <<>> THEN FZero
    ELSE FAdd(Total(SubSeq(e, 1, Len(e) - 1), jenis),
              IF DictItem(e[Len(e)], K_jenis) = PyStr(jenis)
              THEN float(DictItem(e[Len(e)], K_jumlah)).val ELSE FZero)

IsPrefix(a, b) == Len(a) <= Len(b) /\ SubSeq(b, 1, Len(a)) = a

\* the text typed as amount is no number at all, or a number not above zero
NotPositiveNumber(j) == ~j.ok \/ j.val.k = "nan" \/ FLe(j.val, FZero)

\* the entry an accepted operation is to append
LastEntry(d) == Riwayat(d)[Len(Riwayat(d))]

JenisOf(op) == IF op = "tambah_pemasukan" THEN Pemasukan ELSE Pengeluaran

---------------------------------------------------------------------------
(* The properties.                                                         *)

\* C1: between operations the balance equals the sum of the Income amounts
\* of the history minus the sum of its Expense amounts.
C1_SaldoIsIncomeMinusExpense ==
    (pc = "menu" /\ IsLedger(data)) =>
        FEq(Saldo(data), FSub(Total(Riwayat(data), Pemasukan), Total(Riwayat(data), Pengeluaran)))

\* C2: an expense above the balance is rejected as insufficient, changing
\* neither the ledger nor the file; an expense with 0 < amount <= balance
\* succeeds and leaves balance - amount, which is >= 0.
C2_ExpenseKeepsSaldoNonNegative ==
    (last.op = "tambah_pengeluaran" /\ IsLedger(last.pre) /\ last.env = NoEnv
        /\ parse_jumlah(last.amt).ok) =>
        /\ FGt(parse_jumlah(last.amt).val, Saldo(last.pre)) =>
              last.out = "insufficient" /\ data = last.pre /\ disk = last.preDisk
        /\ (FGt(parse_jumlah(last.amt).val, FZero)
              /\ FLe(parse_jumlah(last.amt).val, Saldo(last.pre))) =>
              /\ last.out = "ok"
              /\ FEq(Saldo(data), FSub(Saldo(last.pre), parse_jumlah(last.amt).val))
              /\ FLe(FZero, Saldo(data))

\* C3: an amount that is not a number, or is not above zero, is rejected as
\* invalid by both operations; the ledger and the file stay as they were.
C3_InvalidAmountRejected ==
    (last.op \in RecordOps /\ NotPositiveNumber(parse_jumlah(last.amt))) =>
        /\ last.out \in {"invalid", "nonpositive"}
        /\ data = last.pre
        /\ disk = last.preDisk

\* C4: when a record operation ends, normally or by a failing save, either
\* the ledger changed and the file holds exactly the new ledger, or neither
\* the ledger nor the file changed.
C4_RecordCommitsOrFails ==
    (last.op \in RecordOps /\ last.env.sig = "none" /\ IsLedger(last.pre)) =>
        \/ data # last.pre /\ disk = File(json_dump(data))
        \/ data = last.pre /\ disk = last.preDisk

\* C5: after save_data(data) has written the file, load_data() returns a
\* value identical to data (same saldo, same riwayat in the same order),
\* whatever the file system would do to a write or a rename, and leaves
\* both files as they are.
C5_SaveLoadRoundTrip ==
    (last.op \in RecordOps \cup {"keluar"} /\ last.out = "ok") =>
        \A w \in WriteOutcomes, rn \in BOOLEAN :
            load_data(disk, bak, w, rn) = [ret |-> Returned(data), disk |-> disk, bak |-> bak]

\* C5 (case reached): an expense was saved into a ledger of two entries,
\* its memo holding a quote that the file stores escaped.
C5_SavedLedgerWithQuotedMemo ==
    /\ last.op = "tambah_pengeluaran"
    /\ last.out = "ok"
    /\ Len(Riwayat(data)) = 2
    /\ DictItem(LastEntry(data), K_keterangan) = PyStr(<<"a", "\"">>)
    /\ disk = File(json_dump(data))

\* C6: load_data() on a file that does not parse returns the empty ledger,
\* leaves the empty ledger in data.json, and keeps the old content in
\* data.json.bak when the rename is permitted; it never raises.
C6_CorruptFileGivesEmptyLedger ==
    (last.op = "load_data" /\ last.preDisk.exists /\ ~json_load(last.preDisk.toks).ok) =>
        /\ last.out = "ok"
        /\ data = data_awal
        /\ disk = File(json_dump(data_awal))
        /\ last.env.rn => bak = last.preDisk

\* C7: load_data() without a data.json returns the empty ledger and leaves
\* a data.json holding exactly it, which a second load returns again.
C7_AbsentFileGivesEmptyLedger ==
    (last.op = "load_data" /\ ~last.preDisk.exists) =>
        /\ last.out = "ok"
        /\ data = data_awal
        /\ disk = File(json_dump(data_awal))
        /\ json_load(disk.toks) = Returned(data_awal)

\* C8: load_data() never raises and always returns a ledger: a dictionary
\* with a numeric saldo and a list riwayat, whatever data.json holds and
\* whether or not it can be written.
C8_LoadReturnsUsableLedger ==
    last.op = "load_data" => (last.out = "ok" /\ IsLedger(data))

\* C9: when Ctrl-C ends the session and the final save of the handler
\* succeeds, data.json holds the ledger that was in memory.
C9_InterruptSavesMemory ==
    (last.out = "KeyboardInterrupt" /\ last.fin = "saved") => disk = File(json_dump(data))

\* C10 (as stated): the entry appended by an accepted operation carries the
\* memo as it was entered, or the placeholder when that is blank.
C10_MemoAsEntered ==
    (last.op \in RecordOps /\ last.out = "ok") =>
        DictItem(LastEntry(data), K_keterangan) =
            PyStr(IF strip(last.ket) = <<>> THEN TanpaKeterangan ELSE last.ket)

\* C10 (amended): no operation changes or reorders the entries already in
\* the history; a rejected operation leaves the ledger as it was; an
\* accepted tambah_pemasukan / tambah_pengeluaran appends exactly one entry,
\* of jenis "Pemasukan" / "Pengeluaran", whose jumlah is the amount entered
\* and whose keterangan is the memo entered without its surrounding
\* whitespace, or the placeholder when nothing else was entered.
C10_HistoryAppendOnly ==
    /\ last.op \notin RecordOps \cup {"none", "load_data"} => data = last.pre
    /\ last.op \in RecordOps =>
          /\ IsPrefix(Riwayat(last.pre), Riwayat(data))
          /\ Len(Riwayat(data)) <= Len(Riwayat(last.pre)) + 1
          /\ last.out \in Rejections => data = last.pre
          /\ last.out = "ok" =>
                /\ Len(Riwayat(data)) = Len(Riwayat(last.pre)) + 1
                /\ DictItem(LastEntry(data), K_jenis) = PyStr(JenisOf(last.op))
                /\ DictItem(LastEntry(data), K_jumlah) = parse_jumlah(last.amt).val
                /\ DictItem(LastEntry(data), K_keterangan) =
                      PyStr(IF strip(last.ket) = <<>> THEN TanpaKeterangan ELSE strip(last.ket))

\* C10 (case reached): a memo entered between blanks was recorded after an
\* earlier entry, and a blank memo was recorded as the placeholder.
C10_PaddedMemoAppended ==
    /\ last.op \in RecordOps
    /\ last.out = "ok"
    /\ last.ket = <<" ", "a", "\"", " ">>
    /\ Len(Riwayat(last.pre)) = 1
    /\ Len(Riwayat(data)) = 2
    /\ DictItem(Riwayat(data)[1], K_keterangan) = PyStr(TanpaKeterangan)

=============================================================================
